---- MODULE Spec2Model ----
(***************************************************************************)
(* A model of the kai-hello web application: the /api/ask handler with its *)
(* per-address rate limiter, the /api/thoughts handlers, and the two       *)
(* tables of the SQLite store (src/main.py, src/database.py).              *)
(*                                                                         *)
(* Text (form fields, stored TEXT columns) is a sequence of one-character  *)
(* strings so that str.strip() and len() are computed, not assumed.        *)
(* Header values, keys, fixed messages and digests are TLA+ strings.       *)
(***************************************************************************)
EXTENDS Integers, Sequences, FiniteSets, TLC

(***************************************************************************)
(* Program constants.                                                      *)
(***************************************************************************)
\* "3/minute": three hits ...
RateLimitAmount == 3
\* ... per 60 seconds.
Window == 60
\* len(question) > 500 is rejected.
MaxQuestionLen == 500
\* get_thoughts(limit=min(limit, 100))
MaxListLimit == 100
\* hexdigest()[:16]
HashLen == 16

(***************************************************************************)
(* Bounds of the model.                                                    *)
(***************************************************************************)
\* Number of HTTP requests received in a behaviour.
MaxRequests == 5
\* Number of requests when every input of /api/ask is explored.
MaxAskRequests == 2
\* Number of requests when the /api/thoughts handlers are explored.
MaxThoughtRequests == 3
\* Number of /api/ask requests suspended in the handler at once.
MaxInFlight == 3
\* The clock stops advancing here (seconds since start).
MaxTime == 118

(***************************************************************************)
(* Inputs.                                                                 *)
(***************************************************************************)
Rep(c, n) == [i \in 1..n |-> c]

\* Characters str.strip() removes (a subset of Python's whitespace).
Whitespace == {" ", "\n"}

\* Client addresses as seen by the server (request.client.host).
Addresses == {"10.0.0.1", "10.0.0.2"}

\* The address all requests come from where overlapping requests are explored.
OneAddress == "10.0.0.1"

\* Values of the form field `question`.
AskInputs ==
  { <<>>,
    <<" ", "\n">>,
    <<" ", "b", " ">>,
    Rep("a", MaxQuestionLen),
    Rep("a", MaxQuestionLen + 1),
    <<" ">> \o Rep("a", MaxQuestionLen) \o <<"\n">> }

\* The inputs used where only the limiter is explored: one question that
\* fails validation and one that passes it.
LimiterInputs == { <<>>, <<" ", "b", " ">> }

\* Texts the generation API may return as message.content[0].text.
Answers == {"a1", "a2"}

\* What client.messages.create / message.content[0].text may do.
GenOutcomes == {"ok", "rate_limit", "error", "empty_content"}

\* What the INSERT/commit of log_question may do.
LogOutcomes == {"ok", "io_error"}

\* Values of the form field `content`.
ThoughtInputs ==
  { <<>>,
    <<"\n", " ">>,
    <<"a">>,
    <<" ", "b", " ", "c", "\n">> }

\* Values of the Authorization header ("" when the header is absent).
AuthHeaders ==
  { "", "Bearer ", "Bearer s3cret", "s3cret" }

\* Values of the query parameter `limit`.
Limits == {-1, 0, 1, 2, MaxListLimit + 1}

\* Values of the environment variable ADMIN_KEY ("" when unset).
AdminKeys == {"", "s3cret"}

\* Values of os.environ.get("ANTHROPIC_API_KEY"): None when unset.
ApiKeys == { [set |-> FALSE, value |-> ""],
             [set |-> TRUE, value |-> ""],
             [set |-> TRUE, value |-> "sk-test"] }

\* Seconds the clock may jump between two events: just short of the
\* limiter's window, and exactly the window.
TickSteps == {Window - 1, Window}

(***************************************************************************)
(* State.                                                                  *)
(***************************************************************************)
VARIABLES
  now,          \* wall clock, whole seconds
  ADMIN_KEY,    \* module-level ADMIN_KEY read at import
  apiKey,       \* environment variable ANTHROPIC_API_KEY
  limiter,      \* limiter's in-memory storage: addr -> [count, expiry]
  thoughts,     \* table thoughts, in rowid order
  questions,    \* table questions, in rowid order
  pending,      \* /api/ask requests suspended in or after `await log_question`
  genCalls,     \* calls made to the external generation API
  nreq,         \* requests received so far
  resp,         \* the response sent last
  answered,     \* number of 200 responses of /api/ask
  passedAt      \* addr -> arrival times, within the last Window seconds, of
                \* the requests the limiter let pass

vars == <<now, ADMIN_KEY, apiKey, limiter, thoughts, questions, pending,
          genCalls, nreq, resp, answered, passedAt>>

(***************************************************************************)
(* Fixed response texts.                                                   *)
(***************************************************************************)
TooManyQuestions == "Too many questions. I need time to think. Try again in a minute."
Overwhelmed == "I'm a bit overwhelmed. Try again in a moment."
WentWrong == "Something went wrong in my thinking."
NotConnected == "I'm not connected right now. Check back later."
EmptyQuestion == "Empty question"
QuestionTooLong == "Question too long (max 500 chars)"
EmptyThought == "Empty thought"
Unauthorized == "Unauthorized"

\* A response: the request it answers (kind, inputs) and what was sent.
NoResp ==
  [kind |-> "none", status |-> 0, detail |-> "", by |-> "",
   addr |-> "", text |-> <<>>, auth |-> "", limit |-> 0,
   answer |-> "", id |-> 0, list |-> <<>>]

\* A variant of InternalError: no `except Exception`; the exception leaves the
\* handler and the server answers with its own 500.
UnhandledError(base, by) ==
  [base EXCEPT !.status = 500, !.by = "server", !.detail = "Internal Server Error"]

\* `except Exception`: the handler's generic 500 for the request `base`
\* describes; `by` names the call that raised.
InternalError(base, by) ==
  [base EXCEPT !.status = 500, !.by = by, !.detail = WentWrong]

(***************************************************************************)
(* Pure functions.                                                         *)
(***************************************************************************)
RECURSIVE LStripIdx(_, _)
LStripIdx(s, i) ==
  IF i > Len(s) THEN i
  ELSE IF s[i] \in Whitespace THEN LStripIdx(s, i + 1) ELSE i

RECURSIVE RStripIdx(_, _)
RStripIdx(s, i) ==
  IF i < 1 THEN i
  ELSE IF s[i] \in Whitespace THEN RStripIdx(s, i - 1) ELSE i

\* A variant of Strip: str.lstrip(), which keeps the trailing whitespace.
StripLeading(s) ==
  LET a == LStripIdx(s, 1)
  IN  IF a > Len(s) THEN <<>> ELSE SubSeq(s, a, Len(s))

\* str.strip(): drop leading and trailing whitespace, keep the inside.
Strip(s) ==
  LET a == LStripIdx(s, 1)
      b == RStripIdx(s, Len(s))
  IN  IF a > b THEN <<>> ELSE SubSeq(s, a, b)

\* hashlib.sha256(addr.encode()).hexdigest()
Sha256Hex(addr) ==
  CASE addr = "10.0.0.1" ->
         "f5047344122f0dee9974ba6761e61c6b8649e1f3968d13a635ebbf7be53a3a0d"
    [] addr = "10.0.0.2" ->
         "cb5f37b4762871e6bbeccee663cb332438340c469160c634566ecc7c7e01009f"

\* A variant of IpHash: the whole digest, not its first 16 characters.
IpHashUntruncated(addr) == Sha256Hex(addr)

\* hashlib.sha256(get_remote_address(request).encode()).hexdigest()[:16]
IpHash(addr) == SubSeq(Sha256Hex(addr), 1, HashLen)

\* A variant of VerifyAdmin: no test that a key is configured.
VerifyAdminNoKeyTest(auth) == auth = "Bearer " \o ADMIN_KEY

\* verify_admin: passes only with a configured key and the exact bearer form.
VerifyAdmin(auth) ==
  ~(ADMIN_KEY = "" \/ auth # "Bearer " \o ADMIN_KEY)

\* A variant of NoApiKey: `api_key is None`, which takes "" for a key.
NoApiKeyUnsetOnly(k) == ~k.set

\* `not api_key`
NoApiKey(k) == ~k.set \/ k.value = ""

\* A variant of ValidateQuestion: `>=` for `>`.
ValidateQuestionOffByOne(question) ==
  IF question = <<>> THEN EmptyQuestion
  ELSE IF Len(question) >= MaxQuestionLen THEN QuestionTooLong
  ELSE ""

\* The checks of api_ask before the credential check: "" when the (stripped)
\* question is accepted, else the detail of the 400.
ValidateQuestion(question) ==
  IF question = <<>> THEN EmptyQuestion
  ELSE IF Len(question) > MaxQuestionLen THEN QuestionTooLong
  ELSE ""

(***************************************************************************)
(* The rate limiter: fixed-window strategy over in-memory storage, the     *)
(* defaults of Limiter(key_func=get_remote_address), with "3/minute".      *)
(***************************************************************************)
EmptySlot == [count |-> 0, expiry |-> 0]

\* The counter of a key as the storage reads it: an expired key is gone.
LiveSlot(slot, t) == IF slot.expiry <= t THEN EmptySlot ELSE slot

\* A variant of Incr: a hit made while another request is suspended writes
\* back the count it found (a lost update).
IncrLostUpdate(slot, t) ==
  LET cur == LiveSlot(slot, t)
      new == IF pending # {} /\ cur.count > 0 THEN cur.count ELSE cur.count + 1
  IN  [count  |-> new,
       expiry |-> IF cur.count = 0 THEN t + Window ELSE cur.expiry]

\* storage.incr(key, expiry): count one hit; the first hit of a window sets
\* the window's end.
Incr(slot, t) ==
  LET cur == LiveSlot(slot, t)
  IN  [count  |-> cur.count + 1,
       expiry |-> IF cur.count + 1 = 1 THEN t + Window ELSE cur.expiry]

\* A variant of HitPasses: `<` for `<=`.
HitPassesOffByOne(slot) == slot.count < RateLimitAmount

\* limiter.hit: the request passes iff the incremented count is within the
\* amount.
HitPasses(slot) == slot.count <= RateLimitAmount

(***************************************************************************)
(* The store.                                                              *)
(***************************************************************************)
\* INSERT INTO thoughts (content): AUTOINCREMENT id, CURRENT_TIMESTAMP.
InsertThought(rows, content, t) ==
  Append(rows, [id |-> Len(rows) + 1, content |-> content, created_at |-> t])

\* INSERT INTO questions (question, answer, ip_hash). The column created_at
\* (the insertion time by default) is read nowhere and is left out of the row.
InsertQuestion(rows, question, answer, ipHash) ==
  Append(rows, [id |-> Len(rows) + 1, question |-> question,
                answer |-> answer, ip_hash |-> ipHash])

Perms(n) == {p \in [1..n -> 1..n] : \A i, j \in 1..n : i # j => p[i] # p[j]}

\* ORDER BY created_at DESC: every order of the rows that is descending in
\* created_at; rows with equal created_at come in an order SQL leaves open.
OrderedByCreatedDesc(rows) ==
  { [i \in 1..Len(rows) |-> rows[p[i]]] :
      p \in { q \in Perms(Len(rows)) :
                \A i, j \in 1..Len(rows) :
                  i < j => rows[q[i]].created_at >= rows[q[j]].created_at } }

\* LIMIT n: the first n rows; a negative n is no limit.
SqlLimit(rows, n) ==
  IF n < 0 \/ n >= Len(rows) THEN rows ELSE SubSeq(rows, 1, n)

\* get_thoughts(limit): the results the SELECT may return.
GetThoughtsResults(rows, limit) ==
  { SqlLimit(o, limit) : o \in OrderedByCreatedDesc(rows) }

Min(a, b) == IF a <= b THEN a ELSE b

(***************************************************************************)
(* Initial state: a started process with an initialised, empty database.   *)
(***************************************************************************)
Init ==
  /\ now = 0
  /\ ADMIN_KEY \in AdminKeys
  /\ apiKey \in ApiKeys
  /\ limiter = [a \in Addresses |-> EmptySlot]
  /\ thoughts = <<>>
  /\ questions = <<>>
  /\ pending = {}
  /\ genCalls = 0
  /\ nreq = 0
  /\ resp = NoResp
  /\ answered = 0
  /\ passedAt = [a \in Addresses |-> <<>>]

(***************************************************************************)
(* Actions.                                                                *)
(***************************************************************************)
\* The times of `ts` less than Window seconds before t.
Recent(ts, t) == SelectSeq(ts, LAMBDA x : t - x < Window)

\* Time passes; the storage's timer drops the expired counters.
Tick(d) ==
  /\ now + d <= MaxTime
  /\ now' = now + d
  /\ limiter' = [a \in Addresses |-> LiveSlot(limiter[a], now + d)]
  /\ passedAt' = [a \in Addresses |-> Recent(passedAt[a], now + d)]
  /\ UNCHANGED <<ADMIN_KEY, apiKey, thoughts, questions, pending, genCalls,
                 nreq, resp, answered>>

\* The handler instance a newly suspended request runs as: the first one free.
FreeSlot ==
  CHOOSE i \in 1..(Cardinality(pending) + 1) :
    /\ \A r \in pending : r.slot # i
    /\ \A j \in 1..(i - 1) : \E r \in pending : r.slot = j

\* POST /api/ask up to its first suspension: the limiter's check, the
\* validation, the credential check and the (blocking) generation call.
AskArrive(addr, q, outcome, ans) ==
  /\ nreq < MaxRequests
  /\ nreq' = nreq + 1
  /\ LET slot     == Incr(limiter[addr], now)
         passed   == HitPasses(slot)
         question == Strip(q)
         invalid  == ValidateQuestion(question)
         base     == [NoResp EXCEPT !.kind = "ask", !.addr = addr, !.text = q]
     IN  /\ limiter' = [limiter EXCEPT ![addr] = slot]
         /\ passedAt' = IF passed
                         THEN [passedAt EXCEPT ![addr] = Append(@, now)]
                         ELSE passedAt
         /\ IF ~passed
              THEN /\ resp' = [base EXCEPT !.status = 429, !.by = "limiter",
                                           !.detail = TooManyQuestions]
                   /\ UNCHANGED <<pending, genCalls>>
            ELSE IF invalid # ""
              THEN /\ resp' = [base EXCEPT !.status = 400, !.by = "validation",
                                           !.detail = invalid]
                   /\ UNCHANGED <<pending, genCalls>>
            ELSE IF NoApiKey(apiKey)
              THEN /\ resp' = [base EXCEPT !.status = 503, !.by = "credential",
                                           !.detail = NotConnected]
                   /\ UNCHANGED <<pending, genCalls>>
            ELSE /\ genCalls' = genCalls + 1
                 /\ CASE outcome = "ok" ->
                           /\ pending' = pending \cup
                                {[slot |-> FreeSlot, addr |-> addr, text |-> q,
                                  question |-> question, answer |-> ans,
                                  ip_hash |-> IpHash(addr), pc |-> "log"]}
                           /\ UNCHANGED resp
                      [] outcome = "rate_limit" ->
                           /\ resp' = [base EXCEPT !.status = 429,
                                         !.by = "provider", !.detail = Overwhelmed]
                           /\ UNCHANGED pending
                      [] OTHER ->
                           /\ resp' = InternalError(base, "generation")
                           /\ UNCHANGED pending
  /\ UNCHANGED <<now, ADMIN_KEY, apiKey, thoughts, questions, answered>>

\* `await log_question(question, answer, ip_hash)`: the INSERT commits, or the
\* storage raises and `except Exception` turns it into a 500.
LogQuestion(r, outcome) ==
  /\ r \in pending
  /\ r.pc = "log"
  /\ IF outcome = "ok"
       THEN /\ questions' = InsertQuestion(questions, r.question, r.answer,
                                           r.ip_hash)
            /\ pending' = (pending \ {r}) \cup {[r EXCEPT !.pc = "logged"]}
            /\ UNCHANGED resp
       ELSE /\ pending' = pending \ {r}
            /\ resp' = InternalError([NoResp EXCEPT !.kind = "ask",
                                         !.addr = r.addr, !.text = r.text],
                                       "log")
            /\ UNCHANGED questions
  /\ UNCHANGED <<now, ADMIN_KEY, apiKey, limiter, thoughts, genCalls, nreq,
                 answered, passedAt>>

\* `return {"answer": answer}` once log_question has returned.
AskRespond(r) ==
  /\ r \in pending
  /\ r.pc = "logged"
  /\ pending' = pending \ {r}
  /\ resp' = [NoResp EXCEPT !.kind = "ask", !.addr = r.addr,
                !.text = r.text, !.status = 200, !.by = "handler",
                !.answer = r.answer]
  /\ answered' = answered + 1
  /\ UNCHANGED <<now, ADMIN_KEY, apiKey, limiter, thoughts, questions,
                 genCalls, nreq, passedAt>>

\* POST /api/thoughts.
AddThought(auth, content) ==
  /\ nreq < MaxRequests
  /\ nreq' = nreq + 1
  /\ LET base == [NoResp EXCEPT !.kind = "add", !.auth = auth, !.text = content]
     IN  IF ~VerifyAdmin(auth)
           THEN /\ resp' = [base EXCEPT !.status = 401, !.detail = Unauthorized]
                /\ UNCHANGED thoughts
         ELSE IF Strip(content) = <<>>
           THEN /\ resp' = [base EXCEPT !.status = 400, !.detail = EmptyThought]
                /\ UNCHANGED thoughts
         ELSE /\ thoughts' = InsertThought(thoughts, Strip(content), now)
              /\ resp' = [base EXCEPT !.status = 200, !.detail = "ok",
                                      !.id = Len(thoughts) + 1]
  /\ UNCHANGED <<now, ADMIN_KEY, apiKey, limiter, questions, pending,
                 genCalls, answered, passedAt>>

\* GET /api/thoughts?limit=...
ApiGetThoughts(limit) ==
  /\ nreq < MaxRequests
  /\ nreq' = nreq + 1
  /\ \E result \in GetThoughtsResults(thoughts, Min(limit, MaxListLimit)) :
       resp' = [NoResp EXCEPT !.kind = "list", !.limit = limit, !.status = 200, !.list = result]
  /\ UNCHANGED <<now, ADMIN_KEY, apiKey, limiter, thoughts, questions,
                 pending, genCalls, answered, passedAt>>

\* Requests of /api/ask with every input, within one window of the limiter.
NextAsk ==
  \/ \E addr \in Addresses, q \in AskInputs, o \in GenOutcomes, ans \in Answers :
       /\ nreq < MaxAskRequests
       /\ AskArrive(addr, q, o, ans)
  \/ \E r \in pending, o \in LogOutcomes : LogQuestion(r, o)
  \/ \E r \in pending : AskRespond(r)

\* Longer runs of /api/ask requests from several addresses over several
\* windows of the limiter, with the inputs the limiter distinguishes; a request
\* arrives when no other is suspended.
NextLimiter ==
  \/ \E d \in TickSteps : Tick(d)
  \/ \E addr \in Addresses, q \in LimiterInputs :
       /\ pending = {}
       /\ AskArrive(addr, q, "ok", "a1")
  \/ \E r \in pending : LogQuestion(r, "ok")
  \/ \E r \in pending : AskRespond(r)

\* Overlapping /api/ask requests from one address over several windows of the
\* limiter: requests arrive while others are suspended in log_question.
NextConcurrent ==
  \/ \E d \in TickSteps : Tick(d)
  \/ \E q \in LimiterInputs :
       /\ Cardinality(pending) < MaxInFlight
       /\ AskArrive(OneAddress, q, "ok", "a1")
  \/ \E r \in pending, o \in LogOutcomes : LogQuestion(r, o)
  \/ \E r \in pending : AskRespond(r)

\* The requests of /api/thoughts.
NextThoughts ==
  \/ \E d \in TickSteps : Tick(d)
  \/ \E auth \in AuthHeaders, content \in ThoughtInputs :
       nreq < MaxThoughtRequests /\ AddThought(auth, content)
  \/ \E limit \in Limits :
       nreq < MaxThoughtRequests /\ ApiGetThoughts(limit)

Next == NextAsk \/ NextLimiter \/ NextConcurrent \/ NextThoughts

\* ADMIN_KEY plays no part in /api/ask, nor ANTHROPIC_API_KEY in /api/thoughts.
InitAsk == Init /\ ADMIN_KEY = ""
InitLimiter == Init /\ ADMIN_KEY = "" /\ ~NoApiKey(apiKey)
InitThoughts == Init /\ ~apiKey.set

Spec == Init /\ [][Next]_vars
SpecAsk == InitAsk /\ [][NextAsk]_vars
SpecLimiter == InitLimiter /\ [][NextLimiter]_vars
SpecConcurrent == InitLimiter /\ [][NextConcurrent]_vars
SpecThoughts == InitThoughts /\ [][NextThoughts]_vars

(***************************************************************************)
(* What a step did, read off the state before and after it.                *)
(***************************************************************************)
\* A request from address a reached the limiter in this step.
Arrived(a) == nreq' = nreq + 1 /\ limiter'[a] # limiter[a]

\* ... and the limiter let it pass / rejected it.
LimiterPassed(a) == Arrived(a) /\ passedAt'[a] = Append(passedAt[a], now)
LimiterRejected(a) == Arrived(a) /\ passedAt'[a] = passedAt[a]

\* A response was sent in this step (resp' is that response).
Responded ==
  nreq' - Cardinality(pending') > nreq - Cardinality(pending)

\* The limiter holds an open window for address a.
WindowOpen(a) == limiter[a].expiry > now

\* The number of requests from a that passed since its open window began.
PassedInWindow(a) ==
  IF WindowOpen(a)
    THEN Len(SelectSeq(passedAt[a], LAMBDA t : t >= limiter[a].expiry - Window))
    ELSE 0

\* The response of the limiter's exception handler.
IsLimiter429(r) ==
  r.kind = "ask" /\ r.status = 429 /\ r.by = "limiter" /\ r.detail = TooManyQuestions

LeadingWs(text) ==
  CHOOSE k \in 0..Len(text) :
    /\ \A j \in 1..k : text[j] \in Whitespace
    /\ k = Len(text) \/ text[k + 1] \notin Whitespace

TrailingWs(text) ==
  CHOOSE k \in 0..Len(text) :
    /\ \A j \in (Len(text) - k + 1)..Len(text) : text[j] \in Whitespace
    /\ k = Len(text) \/ text[Len(text) - k] \notin Whitespace

Trimmed(text) ==
  IF LeadingWs(text) = Len(text) THEN <<>>
  ELSE SubSeq(text, LeadingWs(text) + 1, Len(text) - TrailingWs(text))

\* The request that was suspended in this step, if one was.
Suspended(r) == r \in pending' /\ r \notin pending /\ r.pc = "log"

\* The form field `question` of the request that arrived in this step.
ArrivedText ==
  IF \E r \in pending' : Suspended(r)
    THEN (CHOOSE r \in pending' : Suspended(r)).text
    ELSE resp'.text

\* No generation credential is configured: the variable is unset or empty.
NoCredential == ~apiKey.set \/ apiKey.value = ""

AnyArrived == \E a \in Addresses : Arrived(a)
AnyPassed == \E a \in Addresses : LimiterPassed(a)

(***************************************************************************)
(* C3                                                                      *)
(***************************************************************************)
\* C3: the questions table holds one row per request whose log write
\* completed, that is, per 200 response sent or about to be sent, and never
\* more rows than answers obtained; a row is written in a step of its own,
\* for a request whose answer was obtained earlier and whose response is not
\* yet sent; the row holds the trimmed question, the answer and the first 16
\* characters of the address's digest; the 200 response returns the answer
\* of a row already written and writes nothing.
C3_LogOncePerAnswer ==
  /\ [](/\ Len(questions) =
             answered + Cardinality({r \in pending : r.pc = "logged"})
         /\ Len(questions) + Cardinality({r \in pending : r.pc = "log"})
              <= genCalls
         /\ \A i \in DOMAIN questions :
              /\ questions[i].id = i
              /\ Len(questions[i].ip_hash) = HashLen
              /\ questions[i].answer \in Answers
              /\ questions[i].question # <<>>)
  /\ [][/\ questions' # questions =>
             \E r \in pending :
               /\ r.pc = "log"
               /\ questions' =
                    Append(questions,
                           [id |-> Len(questions) + 1,
                            question |-> Trimmed(r.text),
                            answer |-> r.answer,
                            ip_hash |-> SubSeq(Sha256Hex(r.addr), 1, HashLen)])
               /\ pending' = (pending \ {r}) \cup {[r EXCEPT !.pc = "logged"]}
               /\ ~Responded
               /\ genCalls' = genCalls
        /\ (Responded /\ resp'.kind = "ask" /\ resp'.status = 200) =>
             /\ answered' = answered + 1
             /\ questions' = questions
             /\ \E i \in DOMAIN questions :
                  /\ questions[i].question = Trimmed(resp'.text)
                  /\ questions[i].answer = resp'.answer
                  /\ questions[i].ip_hash =
                       SubSeq(Sha256Hex(resp'.addr), 1, HashLen)
        /\ answered' # answered =>
             Responded /\ resp'.kind = "ask" /\ resp'.status = 200]_vars

\* C3 witness: one request was answered 200 and its row is written, while a
\* second one, with another answer from another address, has its row written
\* and its response still to send.
C3_Witness ==
  /\ resp.kind = "ask" /\ resp.status = 200
  /\ answered = 1 /\ Len(questions) = 2
  /\ \E r \in pending :
       /\ r.pc = "logged" /\ r.answer # resp.answer /\ r.addr # resp.addr
       /\ questions[2].answer = r.answer
       /\ Len(r.text) > Len(questions[2].question)

(***************************************************************************)
(* C4                                                                      *)
(***************************************************************************)
\* C4: with no generation credential (unset or empty), a request that passes
\* the limiter is answered at once; if its question is valid (1 to 500
\* characters after trimming) the answer is 503; no call to the generation
\* API is ever made and no row is ever written.
C4_NoCredential503 ==
  /\ [](NoCredential => genCalls = 0 /\ questions = <<>> /\ pending = {})
  /\ [][(AnyPassed /\ NoCredential) =>
           /\ Responded
           /\ Len(Trimmed(resp'.text)) \in 1..MaxQuestionLen =>
                /\ resp'.kind = "ask"
                /\ resp'.status = 503
                /\ resp'.detail = NotConnected
           /\ resp'.status = 503 =>
                Len(Trimmed(resp'.text)) \in 1..MaxQuestionLen]_vars

\* C4 witness: ANTHROPIC_API_KEY is set to the empty string and a question of
\* exactly 500 characters after trimming was answered 503.
C4_Witness ==
  /\ apiKey.set /\ apiKey.value = ""
  /\ resp.kind = "ask" /\ resp.status = 503
  /\ Len(Trimmed(resp.text)) = MaxQuestionLen
  /\ Len(resp.text) > MaxQuestionLen
  /\ nreq = 2

C10_FailuresTranslated ==
  [][/\ (AnyArrived /\ genCalls' = genCalls + 1) =>
          \/ /\ \E r \in pending' : Suspended(r) /\ pending' = pending \cup {r}
             /\ ~Responded
          \/ /\ Responded /\ pending' = pending /\ questions' = questions
             /\ resp'.kind = "ask" /\ resp'.answer = ""
             /\ \/ /\ resp'.status = 429 /\ resp'.by = "provider"
                   /\ resp'.detail = Overwhelmed
                \/ /\ resp'.status = 500 /\ resp'.by = "generation"
                   /\ resp'.detail = WentWrong
     /\ \A r \in pending :
          (r \notin pending' /\ [r EXCEPT !.pc = "logged"] \notin pending') =>
            /\ Responded /\ resp'.kind = "ask"
            /\ resp'.addr = r.addr /\ resp'.text = r.text
            /\ questions' = questions
            /\ IF r.pc = "logged"
                 THEN resp'.status = 200 /\ resp'.answer = r.answer
                 ELSE /\ resp'.status = 500 /\ resp'.by = "log"
                      /\ resp'.detail = WentWrong /\ resp'.answer = ""]_vars

\* C10 witness: the log write of a request failed after its answer was
\* obtained; the response is the generic 500 and the table is empty.
C10_Witness ==
  /\ resp.kind = "ask" /\ resp.status = 500 /\ resp.by = "log"
  /\ resp.detail = WentWrong /\ resp.answer = ""
  /\ genCalls = 1 /\ questions = <<>> /\ pending = {}

(***************************************************************************)
(* The requests of /api/thoughts, read off a step.                         *)
(***************************************************************************)
\* POST /api/thoughts was handled in this step (resp' is its response).
Added == nreq' = nreq + 1 /\ resp'.kind = "add"

\* The Authorization header is exactly the bearer form of a configured key.
ValidCredential(auth) == ADMIN_KEY # "" /\ auth = "Bearer " \o ADMIN_KEY

Max0(n) == IF n < 0 THEN 0 ELSE n

C8_AtMostLimit ==
  resp.kind = "list" =>
    Len(resp.list) <= Max0(Min(resp.limit, Min(MaxListLimit, Len(thoughts))))

(***************************************************************************)
(* C9                                                                      *)
(***************************************************************************)
\* C9: listThoughts(1) after addThought(content) returns exactly one entry,
\* with that content, also when earlier thoughts have the same created_at;
\* and the ids of the stored thoughts are strictly increasing.
C9_NewestFirst ==
  /\ (resp.kind = "list" /\ resp.limit = 1 /\ thoughts # <<>>) =>
       /\ Len(resp.list) = 1
       /\ resp.list[1].content = thoughts[Len(thoughts)].content
  /\ \A i, j \in DOMAIN thoughts : i < j => thoughts[i].id < thoughts[j].id

====
